---- MODULE Spec2Model ----
(***************************************************************************)
(* Model of graph_bench/plot_bench2.py: the Time value, the benchmark      *)
(* records (BenchStats, BenchResult2), the loaded record list, the lookup  *)
(* get_entry, the per-variation view, the comparison and cache-size rows   *)
(* and the chart series; and of the one-time rendering setup of            *)
(* graph_bench/plotlib.py (SuperFigure.init_plb, figure, subplots).        *)
(*                                                                         *)
(* The specifications share the variables; each leaves the variables of    *)
(* the others at their idle values:                                        *)
(*   SpecTime       Time.__add__ and Time.__sub__ on normalized operands   *)
(*   SpecEffTime    BenchResult2.time on one record                        *)
(*   SpecSpeedup    the loop body of to_table1_row on one (baseline,       *)
(*                  cached) pair                                           *)
(*   SpecShares     to_table2_row on a bucket of one cached record         *)
(*   SpecCacheSize  cache_frac and the cache-size cell of to_table2_row    *)
(*   SpecIndex      load_results2 and get_entry on documents whose keys    *)
(*                  collide                                                *)
(*   SpecLoad       load_results2 on documents with malformed leaves       *)
(*   SpecView       load_results2, BenchResultVariation, base_var,         *)
(*                  cached_var, to_table1_row and to_table2_row on         *)
(*                  documents with gaps                                    *)
(*   SpecScript     the script on complete documents: bench_vars, both     *)
(*                  tables and get_data, in any order                      *)
(*   SpecBreakEven  get_break_even before and after loading                *)
(*   SpecPlb        calls of SuperFigure.init_plb, figure and subplots in  *)
(*                  any order                                              *)
(*                                                                         *)
(* Python strings are modelled as sequences of one-character strings, so   *)
(* that formatting (to_str), parsing (int) and substring tests are         *)
(* computed and not assumed.  Python floats are modelled as exact          *)
(* rationals over integer nanoseconds.                                     *)
(***************************************************************************)
EXTENDS Integers, Sequences, FiniteSets, TLC

VARIABLES
    ta, tb, tr, tpc,        \* Time arithmetic: operands, result, last operation
    mb, mc, mvar, mres,     \* one (baseline, cached) pair, its variant label, the derived value
    doc, bench_data,        \* input document (leaves in order), loaded record list
    entry,                  \* outcome of the last get_entry
    vspec, view,            \* VariationData and BenchResultVariation.data
    rows,                   \* outcome of the last table builder
    pc,                     \* position of the script
    load_status,            \* outcome of load_results2
    series,                 \* outcome of the last base_var / cached_var
    chart,                  \* outcome of the last get_data
    bench_vars,             \* the list bench_vars: one view per appended variation
    heap,                   \* the list objects the views allocated
    rows2,                  \* outcome of the last to_table2_row
    is_init,                \* SuperFigure.__is_init
    plb_prints,             \* lines "Initialising plot constants..." written
    color_sets,             \* assignments of rcParams['axes.prop_cycle']
    font_sets,              \* updates of rcParams with the LaTeX font
    plb_calls,              \* calls of init_plb, figure and subplots so far
    plb_figs,               \* figures created by pyplot
    plb_ret                 \* outcome of the last call

timeVars == <<ta, tb, tr, tpc>>
metricVars == <<mb, mc, mvar, mres>>
indexVars == <<doc, bench_data, entry, vspec, view, rows, pc, load_status, series, chart, bench_vars, heap, rows2>>
plbVars == <<is_init, plb_prints, color_sets, font_sets, plb_calls, plb_figs, plb_ret>>
vars == <<ta, tb, tr, tpc, mb, mc, mvar, mres, doc, bench_data, entry, vspec, view, rows, pc, load_status, series, chart, bench_vars, heap, rows2, is_init, plb_prints, color_sets, font_sets, plb_calls, plb_figs, plb_ret>>

----------------------------------------------------------------------------
(* Time: plot_bench2.py lines 42-77                                        *)

NANOS_PER_SEC == 1000000000

Time(secs, nanos) == [secs |-> secs, nanos |-> nanos]

\* Faulty variant of Time.__add__: carries only when the sum exceeds one second.
TimeAddNoCarryAtBoundary(self, other) ==
    LET secs == self.secs + other.secs
        nanos == self.nanos + other.nanos
    IN  IF nanos > NANOS_PER_SEC
        THEN Time(secs + 1, nanos - NANOS_PER_SEC)
        ELSE Time(secs, nanos)

TimeAdd(self, other) ==
    LET secs == self.secs + other.secs
        nanos == self.nanos + other.nanos
    IN  IF nanos >= NANOS_PER_SEC
        THEN Time(secs + 1, nanos - NANOS_PER_SEC)
        ELSE Time(secs, nanos)

\* Faulty variant of Time.__sub__: restores the nanos but forgets to borrow the second.
TimeSubNoBorrow(self, other) ==
    LET secs == self.secs - other.secs
        nanos == self.nanos - other.nanos
    IN  IF nanos < 0
        THEN Time(secs, nanos + NANOS_PER_SEC)
        ELSE Time(secs, nanos)

TimeSub(self, other) ==
    LET secs == self.secs - other.secs
        nanos == self.nanos - other.nanos
    IN  IF nanos < 0
        THEN Time(secs - 1, nanos + NANOS_PER_SEC)
        ELSE Time(secs, nanos)

----------------------------------------------------------------------------
(* Strings.  A Python str is a sequence of one-character strings.          *)

Str_base == <<"b", "a", "s", "e">>
Str_cached == <<"c", "a", "c", "h", "e", "d">>
Str_circle == <<"c", "i", "r", "c", "l", "e">>

Digits == <<"0", "1", "2", "3", "4", "5", "6", "7", "8", "9">>
DigitValue(ch) == (CHOOSE d \in 1..10 : Digits[d] = ch) - 1

IsDigits(s) == Len(s) > 0 /\ \A k \in 1..Len(s) : \E d \in 1..10 : Digits[d] = s[k]

\* Whether int(s) accepts the string s: decimal digits behind an optional
\* sign; anything else raises ValueError.
IsIntLiteral(s) ==
    \/ IsDigits(s)
    \/ Len(s) > 1 /\ s[1] \in {"-", "+"} /\ IsDigits(Tail(s))

\* int(s) for a string int accepts: "01" and "1" both give 1, "-1" gives -1.
RECURSIVE ParseInt(_)
ParseInt(s) ==
    IF Len(s) = 0 THEN 0
    ELSE IF s[1] = "-" THEN 0 - ParseInt(Tail(s))
    ELSE IF s[1] = "+" THEN ParseInt(Tail(s))
    ELSE 10 * ParseInt(SubSeq(s, 1, Len(s) - 1)) + DigitValue(s[Len(s)])

\* str(n), as an f-string formats an int: no leading zeros, "-" for n < 0.
RECURSIVE IntToStr(_)
IntToStr(n) ==
    IF n < 0 THEN <<"-">> \o IntToStr(0 - n)
    ELSE IF n < 10 THEN <<Digits[n + 1]>>
    ELSE IntToStr(n \div 10) \o <<Digits[(n % 10) + 1]>>

\* Python's "needle in hay" on strings.
Contains(needle, hay) ==
    \E k \in 0..(Len(hay) - Len(needle)) :
        SubSeq(hay, k + 1, k + Len(needle)) = needle

----------------------------------------------------------------------------
(* BenchStats and BenchResult2: plot_bench2.py lines 80-218                *)

Time_from_json(data) == Time(data.secs, data.nanos)

BenchStats(time, circle_check_time, cache_read_time, cache_store_time, edges_traversed, nodes_visited, cache_reads, cache_writes, cache_hits, cache_size_estimate, cache_size, graph_size) ==
    [time |-> time,
     circle_check_time |-> circle_check_time,
     cache_read_time |-> cache_read_time,
     cache_store_time |-> cache_store_time,
     cache_access_time |-> TimeAdd(cache_read_time, cache_store_time),
     edges_traversed |-> edges_traversed,
     nodes_visited |-> nodes_visited,
     cache_reads |-> cache_reads,
     cache_writes |-> cache_writes,
     cache_hits |-> cache_hits,
     cache_size_estimate |-> cache_size_estimate,
     cache_size |-> cache_size,
     graph_size |-> graph_size]

BenchStats_from_json(data) ==
    BenchStats(Time_from_json(data.time),
               Time_from_json(data.circle_check_time),
               Time_from_json(data.cache_read_time),
               Time_from_json(data.cache_store_time),
               data.edges_traversed, data.nodes_visited, data.cache_reads,
               data.cache_writes, data.cache_hits, data.cache_size_estimate,
               data.cache_size, data.graph_size)

BenchResult2(name, head_type, pattern_var, query_type, num_queries, stats) ==
    [name |-> name,
     head_type |-> head_type,
     pattern_var |-> pattern_var,
     query_type |-> query_type,
     num_queries |-> ParseInt(num_queries),
     stats |-> stats]

\* The nested document is held as its leaves in iteration order: each leaf
\* carries the five keys on its path and the raw stats object.  from_json
\* appends one record per leaf, in that order (for leaves that raise
\* nothing: see load_results2).
BenchResult2_from_json(data) ==
    [i \in 1..Len(data) |->
        BenchResult2(data[i].name, data[i].head_type, data[i].pattern_var,
                     data[i].query_type, data[i].num_queries,
                     BenchStats_from_json(data[i].stats_raw))]

\* The keys BenchStats.from_json reads, and those it hands to Time.from_json.
StatsFields ==
    {"time", "circle_check_time", "cache_read_time", "cache_store_time",
     "edges_traversed", "nodes_visited", "cache_reads", "cache_writes",
     "cache_hits", "cache_size_estimate", "cache_size", "graph_size"}
TimeFields == {"time", "circle_check_time", "cache_read_time", "cache_store_time"}

\* The exception one leaf raises in the loop body of from_json (lines
\* 185-193): a KeyError of data[...] for a key that is not there, then the
\* ValueError of int(num_queries); "none" when the record is built.
LeafRaises(leaf) ==
    IF ~(StatsFields \subseteq DOMAIN leaf.stats_raw) THEN "KeyError"
    ELSE IF \E f \in TimeFields : ~({"secs", "nanos"} \subseteq DOMAIN leaf.stats_raw[f])
    THEN "KeyError"
    ELSE IF ~IsIntLiteral(leaf.num_queries) THEN "ValueError"
    ELSE "none"

\* load_results2: the records of the document, or the exception of the
\* first leaf that raises one.
load_results2(data) ==
    LET bad == {i \in 1..Len(data) : LeafRaises(data[i]) # "none"}
    IN  IF bad = {}
        THEN [status |-> "ok", value |-> BenchResult2_from_json(data)]
        ELSE [status |-> "error",
              error |-> LeafRaises(data[CHOOSE i \in bad : \A j \in bad : i <= j])]

Sep == <<":", ":">>

to_str(self) ==
    self.name \o Sep \o self.head_type \o Sep \o self.pattern_var \o Sep
        \o self.query_type \o Sep \o IntToStr(self.num_queries)

eq_br(self, other) == to_str(self) = to_str(other)

\* The five key fields of a record.
KeyOf(r) == <<r.name, r.head_type, r.pattern_var, r.query_type, r.num_queries>>

NUM_QUERIES == << <<"1">>, <<"5">>, <<"1", "0">> >>

\* get_data.get_entry: the first record whose to_str equals the matcher's
\* (idx is its place in the list: the call returns data[idx] itself), or an
\* error carrying the matcher's to_str.
get_entry(data, name, head_type, pattern_var, q_type, q) ==
    LET matcher == BenchResult2(name, head_type, pattern_var, q_type, q, <<>>)
        hits == {i \in 1..Len(data) : eq_br(data[i], matcher)}
    IN  IF hits = {}
        THEN [status |-> "error", key |-> KeyOf(matcher), msg |-> to_str(matcher)]
        ELSE [status |-> "ok", key |-> KeyOf(matcher),
              idx |-> CHOOSE i \in hits : \A k \in hits : i <= k]

----------------------------------------------------------------------------
(* Derived metrics: plot_bench2.py lines 7-8, 53-61, 140-141, 201-211,     *)
(* 368-379.  A float holding milliseconds is modelled as the exact number  *)
(* of nanoseconds it stands for (the float is that number / 1e6), and a    *)
(* quotient of two such floats as the pair of its operands.                *)

\* Time.as_num / Time.__float__, in nanoseconds.
as_num(self) == self.secs * NANOS_PER_SEC + self.nanos

\* Faulty variant of time_uncached: the circle-check time is not taken off.
time_uncached_keeps_circle(stats) == TimeSub(stats.time, stats.cache_access_time)

time_uncached(stats) ==
    TimeSub(TimeSub(stats.time, stats.cache_access_time), stats.circle_check_time)

BenchResult2_time(self, with_circle) ==
    IF with_circle
    THEN self.stats.time
    ELSE TimeAdd(time_uncached(self.stats), self.stats.cache_access_time)

\* Faulty variant of circle_check_time: the flag is ignored.
circle_check_time_ignores_flag(self, with_circle) == self.stats.circle_check_time

BenchResult2_circle_check_time(self, with_circle) ==
    IF with_circle THEN self.stats.circle_check_time ELSE Time(0, 0)

\* BAD_SPEEDUP_THRESHOLD = 1.0; GOOD_SPEEDUP_THRESHOLD = 1.0001 = 1 + 1/10000.
BAD_SPEEDUP_THRESHOLD == 1
GOOD_SPEEDUP_MARGIN_DEN == 10000

\* num/den < 1.0, for den # 0.
SpeedupLtBad(num, den) ==
    IF den > 0 THEN num < BAD_SPEEDUP_THRESHOLD * den
               ELSE num > BAD_SPEEDUP_THRESHOLD * den

\* num/den > 1.0001, for den # 0: with den > 0 this is
\* num - den > den/10000, and an integer exceeds a real exactly when it
\* exceeds its floor (no product that could leave the 32-bit range).
SpeedupGtGood(num, den) ==
    IF den > 0 THEN num - den > den \div GOOD_SPEEDUP_MARGIN_DEN
               ELSE (-num) - (-den) > (-den) \div GOOD_SPEEDUP_MARGIN_DEN

\* Faulty variant of the classification: everything at or above 1.0 is marked positive.
SpeedupMarkNoBand(num, den) ==
    IF SpeedupLtBad(num, den) THEN "negative" ELSE "positive"

\* The LaTeX macro wrapped around the speedup (lines 374-379).
SpeedupMark(num, den) ==
    IF SpeedupLtBad(num, den) THEN "negative"
    ELSE IF SpeedupGtGood(num, den) THEN "positive"
    ELSE "plain"

\* Faulty variant of the loop body: the baseline's own cache and circle-check
\* components are taken off its total.
Table1BaseTimeUncached(b) == as_num(time_uncached(b.stats))

\* Line 369/373: the baseline side of the comparison.
Table1BaseTime(b) == as_num(b.stats.time)

\* One iteration of the loop of to_table1_row (lines 369-379) for the pair
\* (b, c) of variant var: the two times and the marked speedup, or the
\* ZeroDivisionError of the float division.
Table1Entry(b, c, var) ==
    LET cache_time == BenchResult2_time(c, Contains(Str_circle, var))
        num == Table1BaseTime(b)
        den == as_num(cache_time)
    IN  IF den = 0
        THEN [status |-> "error", error |-> "ZeroDivisionError"]
        ELSE [status |-> "ok", exec_time_base |-> num, exec_time_cached |-> den,
              speedup |-> [num |-> num, den |-> den],
              mark |-> SpeedupMark(num, den)]

----------------------------------------------------------------------------
(* Cache size relative to the graph: plot_bench2.py lines 10-11, 125-128,  *)
(* 420-425.  The float a / b is the pair of its operands; the division     *)
(* raises ZeroDivisionError for b = 0.                                     *)

TrueDiv(a, b) ==
    IF b = 0 THEN [status |-> "error", error |-> "ZeroDivisionError"]
    ELSE [status |-> "ok", num |-> a, den |-> b]

\* Faulty variant of cache_frac: the division is not guarded.
cache_frac_unguarded(self) == TrueDiv(self.cache_size, self.graph_size)

cache_frac(self) ==
    IF self.graph_size = 0
    THEN [status |-> "ok", num |-> 0, den |-> 1]
    ELSE TrueDiv(self.cache_size, self.graph_size)

BAD_SIZE_THRESHOLD == 10
GOOD_SIZE_THRESHOLD == 1

\* f < k and f > k for the quotient f and the whole number k.
FracLt(f, k) == IF f.den > 0 THEN f.num < k * f.den ELSE f.num > k * f.den
FracGt(f, k) == IF f.den > 0 THEN f.num > k * f.den ELSE f.num < k * f.den

\* Faulty variant of the size classification: ten times the graph is already bad.
SizeMarkBadAtThreshold(f) ==
    IF FracLt(f, GOOD_SIZE_THRESHOLD) THEN "positive"
    ELSE IF ~FracLt(f, BAD_SIZE_THRESHOLD) THEN "negative"
    ELSE "plain"

\* The LaTeX macro wrapped around the cache fraction (lines 420-425).
SizeMark(f) ==
    IF FracLt(f, GOOD_SIZE_THRESHOLD) THEN "positive"
    ELSE IF FracGt(f, BAD_SIZE_THRESHOLD) THEN "negative"
    ELSE "plain"

\* The cache-size cell of a cache-size row for the record c: the fraction
\* and its mark, or the exception of cache_frac.
Table2CacheSize(c) ==
    LET f == cache_frac(c.stats)
    IN  IF f.status # "ok" THEN f
        ELSE [status |-> "ok", frac |-> [num |-> f.num, den |-> f.den],
              mark |-> SizeMark(f)]

----------------------------------------------------------------------------
(* VariationData, BenchResultVariation and the comparison rows:            *)
(* plot_bench2.py lines 14-40, 242-257, 297-303, 323-397.                  *)

Str_fan == <<"f", "a", "n">>
Str_fanchain == <<"f", "a", "n", "c", "h", "a", "i", "n">>
Str_linear == <<"l", "i", "n", "e", "a", "r">>
Str_sg_linear == <<"s", "g", "_", "l", "i", "n", "e", "a", "r">>
Str_sg_diamond == <<"s", "g", "_", "d", "i", "a", "m", "o", "n", "d">>
Str_sg_tree == <<"s", "g", "_", "t", "r", "e", "e">>
Str_sg_circle == <<"s", "g", "_", "c", "i", "r", "c", "l", "e">>

PERFORMANCE_BREAK_EVEN ==
    [fanout |-> (Str_sg_tree :> 2) @@ (Str_sg_linear :> 2)
                @@ (Str_sg_diamond :> 1) @@ (Str_sg_circle :> 5),
     linear |-> (Str_sg_tree :> 2) @@ (Str_sg_linear :> 2)
                @@ (Str_sg_diamond :> 1) @@ (Str_sg_circle :> 4)]

\* Faulty variant of get_break_even: the linear table for every head.
get_break_even_linear_only(head, name) ==
    IF name \in DOMAIN PERFORMANCE_BREAK_EVEN.linear
    THEN [status |-> "ok", value |-> PERFORMANCE_BREAK_EVEN.linear[name]]
    ELSE [status |-> "error", error |-> "KeyError"]

\* get_break_even: a KeyError when the name is not in the table.
get_break_even(head, name) ==
    LET tab == IF Contains(Str_fan, head)
               THEN PERFORMANCE_BREAK_EVEN.fanout
               ELSE PERFORMANCE_BREAK_EVEN.linear
    IN  IF name \in DOMAIN tab
        THEN [status |-> "ok", value |-> tab[name]]
        ELSE [status |-> "error", error |-> "KeyError"]

head_display_name(head) ==
    IF Contains(Str_fanchain, head) THEN <<"F", "a", "n", "o", "u", "t">>
    ELSE IF Contains(Str_linear, head) THEN <<"L", "i", "n", "e", "a", "r">>
    ELSE head

\* var.split("-")
RECURSIVE Split(_)
Split(s) ==
    LET dashes == {k \in 1..Len(s) : s[k] = "-"}
    IN  IF dashes = {} THEN <<s>>
        ELSE LET k == CHOOSE d \in dashes : \A e \in dashes : d <= e
             IN  <<SubSeq(s, 1, k - 1)>> \o Split(SubSeq(s, k + 1, Len(s)))

Str_diamond == <<"d", "i", "a", "m", "o", "n", "d">>
Str_tree == <<"t", "r", "e", "e">>

\* tab of pattern_var_display_name.
DisplayTab ==
    (Str_tree :> <<"T", "r", "e", "e">>)
    @@ (Str_linear :> <<"L", "i", "n", "e", "a", "r">>)
    @@ (Str_circle :> <<"C", "i", "r", "c", "u", "l", "a", "r">>)
    @@ (Str_diamond :> <<"D", "i", "a", "m", "o", "n", "d">>)

\* pattern_var_display_name: IndexError for a label with too few "-" parts,
\* KeyError for a first part that is not in tab.
pattern_var_display_name(var) ==
    LET parts == Split(var)
        name == parts[1]
    IN  IF Len(parts) < 2 THEN [status |-> "error", error |-> "IndexError"]
        ELSE IF name = Str_diamond
        THEN IF Len(parts) < 3 THEN [status |-> "error", error |-> "IndexError"]
             ELSE [status |-> "ok",
                   value |-> DisplayTab[name] \o <<" ", "(", "$", "N", " ", "=", " ">> \o parts[2]
                             \o <<",", " ", "M", " ", "=", " ">> \o parts[3] \o <<"$", ")">>]
        ELSE IF name \notin DOMAIN DisplayTab THEN [status |-> "error", error |-> "KeyError"]
        ELSE [status |-> "ok",
              value |-> DisplayTab[name] \o <<" ", "(", "$", "N", " ", "=", " ">> \o parts[2]
                        \o <<"$", ")">>]

VariationData(name, head_type, pattern_var) ==
    [name |-> name, head_type |-> head_type, pattern_var |-> pattern_var]

InSeq(x, seq) == \E k \in 1..Len(seq) : seq[k] = x

\* Faulty variant of the bucket update: the record is appended, the bucket not sorted.
AppendOnly(bucket, br) == Append(bucket, br)

\* bucket.append(br); bucket.sort(key=num_queries) on a bucket that is
\* already sorted: the sort is stable, so br lands behind every record
\* whose num_queries is not greater.
AppendAndSort(bucket, br) ==
    LET before == {k \in 1..Len(bucket) : bucket[k].num_queries <= br.num_queries}
        n == Cardinality(before)
    IN  SubSeq(bucket, 1, n) \o <<br>> \o SubSeq(bucket, n + 1, Len(bucket))

\* dct after the first n records of bench_results have been visited
\* (lines 335-346).  dct[br.query_type] raises KeyError for a mode other
\* than "base" and "cached".
RECURSIVE ViewAfter(_, _, _)
ViewAfter(var, bench_results, n) ==
    IF n = 0
    THEN [status |-> "ok", base |-> <<>>, cached |-> <<>>]
    ELSE LET dct == ViewAfter(var, bench_results, n - 1)
             br == bench_results[n]
             put(m) == IF br.pattern_var \in DOMAIN m
                       THEN [m EXCEPT ![br.pattern_var] = AppendAndSort(@, br)]
                       ELSE m @@ (br.pattern_var :> <<br>>)
         IN  IF dct.status # "ok" THEN dct
             ELSE IF ~( /\ br.name = var.name
                        /\ br.head_type = var.head_type
                        /\ InSeq(br.pattern_var, var.pattern_var) )
             THEN dct
             ELSE IF br.query_type = Str_base
             THEN [dct EXCEPT !.base = put(@)]
             ELSE IF br.query_type = Str_cached
             THEN [dct EXCEPT !.cached = put(@)]
             ELSE [status |-> "error", error |-> "KeyError"]

\* BenchResultVariation.__init__: self.data.
BenchResultVariation(var, bench_results) ==
    ViewAfter(var, bench_results, Len(bench_results))

\* Faulty variant of base_var: a variant without a bucket gives an empty list.
base_var_default(data, var) ==
    [status |-> "ok", value |-> IF var \in DOMAIN data.base THEN data.base[var] ELSE <<>>]

\* base_var / cached_var: self.data[mode][var], a KeyError when the view
\* has no bucket under var.
base_var(data, var) ==
    IF var \in DOMAIN data.base
    THEN [status |-> "ok", value |-> data.base[var]]
    ELSE [status |-> "error", error |-> "KeyError"]

cached_var(data, var) ==
    IF var \in DOMAIN data.cached
    THEN [status |-> "ok", value |-> data.cached[var]]
    ELSE [status |-> "error", error |-> "KeyError"]

Min(a, b) == IF a < b THEN a ELSE b

\* zip(self.base_var(var), self.cached_var(var)): pairs up to the shorter list.
Zip(bs, cs) == [k \in 1..Min(Len(bs), Len(cs)) |-> <<bs[k], cs[k]>>]

\* The row of one variant (lines 365-394), the " / "-joined strings held as
\* the sequences of their parts; base_var / cached_var raise KeyError for a
\* variant the view has no bucket for.
Table1Row(var, data, pv) ==
    IF pv \notin DOMAIN data.base \/ pv \notin DOMAIN data.cached
    THEN [status |-> "error", error |-> "KeyError"]
    ELSE LET pairs == Zip(data.base[pv], data.cached[pv])
             ents == [k \in 1..Len(pairs) |-> Table1Entry(pairs[k][1], pairs[k][2], pv)]
             be == get_break_even(var.head_type, var.name)
             lbl == pattern_var_display_name(pv)
         IN  IF \E k \in 1..Len(ents) : ents[k].status # "ok"
             THEN [status |-> "error", error |-> "ZeroDivisionError"]
             ELSE IF be.status # "ok" THEN be
             ELSE IF lbl.status # "ok" THEN lbl
             ELSE [status |-> "ok",
                   head |-> head_display_name(var.head_type),
                   pattern |-> lbl.value,
                   exec_time_base |-> [k \in 1..Len(ents) |-> ents[k].exec_time_base],
                   exec_time_cached |-> [k \in 1..Len(ents) |-> ents[k].exec_time_cached],
                   speedup |-> [k \in 1..Len(ents) |-> [value |-> ents[k].speedup, mark |-> ents[k].mark]],
                   break_even |-> be.value]

\* to_table1_row: one row per variant of the spec, in order; the first
\* exception ends the call.
to_table1_row(var, data) ==
    LET rs == [k \in 1..Len(var.pattern_var) |-> Table1Row(var, data, var.pattern_var[k])]
        bad == {k \in 1..Len(rs) : rs[k].status # "ok"}
    IN  IF bad = {}
        THEN [status |-> "ok", rows |-> rs]
        ELSE rs[CHOOSE k \in bad : \A j \in bad : k <= j]

\* Faulty variant of the choice of the record: the smallest query count.
FirstOf(bucket) == bucket[1]

\* self.cached_var(var)[-1]: the last record of the sorted bucket.
LastOf(bucket) == bucket[Len(bucket)]

\* The row of one variant in to_table2_row (lines 403-439).  A share is the
\* pair of the operands of its division; the row also shows 100 times it.
Table2Row(var, data, pv) ==
    LET with_circle == Contains(Str_circle, pv)
        cv == cached_var(data, pv)
    IN  IF cv.status # "ok" THEN cv
        ELSE IF Len(cv.value) = 0 THEN [status |-> "error", error |-> "IndexError"]
        ELSE LET c == LastOf(cv.value)
                 total_time == as_num(BenchResult2_time(c, with_circle))
                 size == Table2CacheSize(c)
                 lbl == pattern_var_display_name(pv)
             IN  IF total_time = 0 THEN [status |-> "error", error |-> "ZeroDivisionError"]
                 ELSE IF size.status # "ok" THEN size
                 ELSE IF lbl.status # "ok" THEN lbl
                 ELSE [status |-> "ok",
                       head |-> head_display_name(var.head_type),
                       pattern |-> lbl.value,
                       exec_time_cached |-> [num |-> as_num(time_uncached(c.stats)), den |-> total_time],
                       cache_time |-> [num |-> as_num(c.stats.cache_access_time), den |-> total_time],
                       circle_time |-> [num |-> as_num(BenchResult2_circle_check_time(c, with_circle)),
                                        den |-> total_time],
                       cache_size |-> [frac |-> size.frac, mark |-> size.mark],
                       same_result |-> <<"1", "0", "0", "\\", "%">>]

\* to_table2_row: one row per variant of the spec, in order; the first
\* exception ends the call.
to_table2_row(var, data) ==
    LET rs == [k \in 1..Len(var.pattern_var) |-> Table2Row(var, data, var.pattern_var[k])]
        bad == {k \in 1..Len(rs) : rs[k].status # "ok"}
    IN  IF bad = {}
        THEN [status |-> "ok", rows |-> rs]
        ELSE rs[CHOOSE k \in bad : \A j \in bad : k <= j]

----------------------------------------------------------------------------
(* get_data: plot_bench2.py lines 507-590.  A bar is its label and its     *)
(* segments; a segment is its values (one per variant, in nanoseconds) and *)
(* its hatch.                                                              *)

BarSegment(values, hatch) == [values |-> values, hatch |-> hatch]
Bar(segments, label) == [segments |-> segments, label |-> label]

\* The records get_entry finds for query count q and mode q_type, one per
\* variant of the spec, in order.
EntriesOf(data, var, q, q_type) ==
    [n \in 1..Len(var.pattern_var) |->
        get_entry(data, var.name, var.head_type, var.pattern_var[n], q_type, q)]

\* The bar of query count q in the first loop (lines 524-541).
BaseBar(data, var, q) ==
    LET es == EntriesOf(data, var, q, Str_base)
    IN  Bar(<<BarSegment([n \in 1..Len(es) |-> as_num(time_uncached(data[es[n].idx].stats))],
                         "none")>>, q)

\* Faulty variant of the cached bar: the circle-check segment is always stacked.
CachedBarAlwaysCircle(data, var, q, cycle_time) ==
    LET es == EntriesOf(data, var, q, Str_cached)
        vals(f(_)) == [n \in 1..Len(es) |-> as_num(f(data[es[n].idx].stats))]
        uncached(st) == time_uncached(st)
        cache(st) == st.cache_access_time
        circle(st) == st.circle_check_time
    IN  Bar(<<BarSegment(vals(uncached), "none"), BarSegment(vals(cache), "o"),
              BarSegment(vals(circle), "/")>>, q)

\* The bar of query count q in the second loop (lines 551-588).
CachedBar(data, var, q, cycle_time) ==
    LET es == EntriesOf(data, var, q, Str_cached)
        vals(f(_)) == [n \in 1..Len(es) |-> as_num(f(data[es[n].idx].stats))]
        uncached(st) == time_uncached(st)
        cache(st) == st.cache_access_time
        circle(st) == st.circle_check_time
        bars == <<BarSegment(vals(uncached), "none"), BarSegment(vals(cache), "o")>>
    IN  Bar(IF cycle_time THEN Append(bars, BarSegment(vals(circle), "/")) ELSE bars, q)

\* get_data: the bars and the legend labels, or the exception of the first
\* get_entry that finds nothing (base loop first; per query count, the
\* variants in order).
get_data(data, var) ==
    LET cycle_time == Contains(Str_circle, var.name)
        nq == Len(NUM_QUERIES)
        nv == Len(var.pattern_var)
        \* the calls of get_entry in the order they are made
        call(c) == LET mode == IF c <= nq * nv THEN Str_base ELSE Str_cached
                       r == (c - 1) % (nq * nv)
                   IN  get_entry(data, var.name, var.head_type,
                                 var.pattern_var[(r % nv) + 1], mode,
                                 NUM_QUERIES[(r \div nv) + 1])
        bad == {c \in 1..(2 * nq * nv) : call(c).status # "ok"}
    IN  IF bad # {}
        THEN [status |-> "error",
              msg |-> call(CHOOSE c \in bad : \A d \in bad : c <= d).msg]
        ELSE [status |-> "ok",
              data |-> [k \in 1..(2 * nq) |->
                          IF k <= nq THEN BaseBar(data, var, NUM_QUERIES[k])
                          ELSE CachedBar(data, var, NUM_QUERIES[k - nq], cycle_time)],
              labels |-> <<"A_cur", "A_mem (graph)", "A_mem (cache)">>
                         \o (IF cycle_time THEN <<"A_mem (circle)">> ELSE <<>>)]

----------------------------------------------------------------------------
(* The list objects of the views.  A view holds, per mode and variant, the *)
(* identity of its bucket; heap maps each identity to the list's content.  *)
(* Lines 335-346 and 695-698.                                              *)

\* Faulty variant of the allocation: the list created last is handed out again.
NewListReused(h) == IF Len(h) = 0 THEN 1 ELSE Len(h)

\* dct[mode][pattern_var] = []: a list object no one else holds.
NewList(h) == Len(h) + 1

\* dct and the heap after the first n records have been visited.
RECURSIVE ViewHeapAfter(_, _, _, _)
ViewHeapAfter(var, bench_results, h0, n) ==
    IF n = 0
    THEN [status |-> "ok", base |-> <<>>, cached |-> <<>>, heap |-> h0]
    ELSE LET st == ViewHeapAfter(var, bench_results, h0, n - 1)
             br == bench_results[n]
             m == IF br.query_type = Str_base THEN st.base ELSE st.cached
             id == IF br.pattern_var \in DOMAIN m THEN m[br.pattern_var] ELSE NewList(st.heap)
             m1 == IF br.pattern_var \in DOMAIN m THEN m ELSE m @@ (br.pattern_var :> id)
             h1 == IF id > Len(st.heap) THEN Append(st.heap, <<>>) ELSE st.heap
             h2 == [h1 EXCEPT ![id] = AppendAndSort(@, br)]
         IN  IF st.status # "ok" THEN st
             ELSE IF ~( /\ br.name = var.name
                        /\ br.head_type = var.head_type
                        /\ InSeq(br.pattern_var, var.pattern_var) )
             THEN st
             ELSE IF br.query_type = Str_base
             THEN [st EXCEPT !.base = m1, !.heap = h2]
             ELSE IF br.query_type = Str_cached
             THEN [st EXCEPT !.cached = m1, !.heap = h2]
             ELSE [status |-> "error", error |-> "KeyError", heap |-> st.heap]

\* self.data of a view, read through the heap.
Deref(v, h) ==
    [status |-> "ok",
     base |-> [pv \in DOMAIN v.base |-> h[v.base[pv]]],
     cached |-> [pv \in DOMAIN v.cached |-> h[v.cached[pv]]]]

----------------------------------------------------------------------------
\* Bounds of the Time inputs.  The nanos samples sit on both sides of every
\* carry and borrow boundary (sums of exactly 1e9, differences of exactly 0).
MaxSecs == 2
NanoSamples == {0, 1, 499999999, 500000000, 999999999}
TimeInputs == {Time(s, n) : s \in 0..MaxSecs, n \in NanoSamples}

Normalized(t) == t.nanos >= 0 /\ t.nanos < NANOS_PER_SEC

\* secs*1e9 + nanos = s*1e9 + n, compared on the difference of the seconds
\* so that no intermediate value leaves the 32-bit range of TLC integers.
SameNanoValue(t, s, n) ==
    /\ t.secs - s \in -2..1
    /\ (t.secs - s) * NANOS_PER_SEC + t.nanos = n

TimeIdle == Time(0, 0)

TimeStart ==
    /\ ta \in TimeInputs
    /\ tb \in TimeInputs
    /\ tr = TimeIdle
    /\ tpc = "start"

\* a + b
DoAdd ==
    /\ tpc = "start"
    /\ tr' = TimeAdd(ta, tb)
    /\ tpc' = "add"
    /\ UNCHANGED <<ta, tb>>
    /\ UNCHANGED <<metricVars, indexVars, plbVars>>

\* a - b
DoSub ==
    /\ tpc = "start"
    /\ tr' = TimeSub(ta, tb)
    /\ tpc' = "sub"
    /\ UNCHANGED <<ta, tb>>
    /\ UNCHANGED <<metricVars, indexVars, plbVars>>

\* (a + b) - b
DoAddSub ==
    /\ tpc = "start"
    /\ tr' = TimeSub(TimeAdd(ta, tb), tb)
    /\ tpc' = "addsub"
    /\ UNCHANGED <<ta, tb>>
    /\ UNCHANGED <<metricVars, indexVars, plbVars>>

IndexIdle ==
    /\ doc = <<>>
    /\ bench_data = <<>>
    /\ entry = [status |-> "none"]
    /\ vspec = [status |-> "none"]
    /\ view = [status |-> "none"]
    /\ rows = [status |-> "none"]
    /\ pc = "idle"
    /\ load_status = [status |-> "none"]
    /\ series = [status |-> "none"]
    /\ chart = [status |-> "none"]
    /\ bench_vars = <<>>
    /\ heap = <<>>
    /\ rows2 = [status |-> "none"]

MetricIdle ==
    /\ mb = [status |-> "none"]
    /\ mc = [status |-> "none"]
    /\ mvar = <<>>
    /\ mres = [op |-> "none"]

NextTime == DoAdd \/ DoSub \/ DoAddSub

\* The class SuperFigure as imported: plotlib.py line 129.
PlbIdle ==
    /\ is_init = FALSE
    /\ plb_prints = 0
    /\ color_sets = 0
    /\ font_sets = 0
    /\ plb_calls = 0
    /\ plb_figs = 0
    /\ plb_ret = [kind |-> "none"]

TimeIdleState ==
    /\ ta = TimeIdle
    /\ tb = TimeIdle
    /\ tr = TimeIdle
    /\ tpc = "idle"

InitTime == TimeStart /\ MetricIdle /\ IndexIdle /\ PlbIdle

SpecTime == InitTime /\ [][NextTime]_vars

----------------------------------------------------------------------------
(* Inputs of the derived metrics.                                          *)

Str_v == <<"v">>
Str_tree_40 == <<"t", "r", "e", "e", "-", "4", "0">>
Str_circle_4 == <<"c", "i", "r", "c", "l", "e", "-", "4">>
Str_fan_pat == <<"f", "a", "n", "c", "h", "a", "i", "n", "-", "2", "5", "-", "1", "0">>
Str_lin_pat == <<"l", "i", "n", "e", "a", "r", "-", "5", "0">>

\* A raw stats object of the document: the four times, counters left at 0.
RawStats(time, circle, read, store) ==
    [time |-> time, circle_check_time |-> circle, cache_read_time |-> read,
     cache_store_time |-> store, edges_traversed |-> 0, nodes_visited |-> 0,
     cache_reads |-> 0, cache_writes |-> 0, cache_hits |-> 0,
     cache_size_estimate |-> 0, cache_size |-> 0, graph_size |-> 0]

\* The record from_json builds for one leaf.
RecordOf(pattern_var, query_type, raw) ==
    BenchResult2(Str_sg_tree, Str_fan_pat, pattern_var, query_type, <<"1">>,
                 BenchStats_from_json(raw))

Ms(n) == Time(0, n * 1000000)

\* Effective time: every combination of normalized Time fields.
EffTimeStart ==
    /\ \E t \in TimeInputs, cc \in TimeInputs, rd \in TimeInputs, st \in TimeInputs :
          mc = RecordOf(Str_tree_40, Str_cached, RawStats(t, cc, rd, st))
    /\ mb = [status |-> "none"]
    /\ mvar = <<>>
    /\ mres = [op |-> "none"]

\* c.time(with_circle)
DoTime(with_circle) ==
    /\ mres.op = "none"
    /\ mres' = [op |-> "time", with_circle |-> with_circle,
                value |-> BenchResult2_time(mc, with_circle)]
    /\ UNCHANGED <<mb, mc, mvar>>
    /\ UNCHANGED <<timeVars, indexVars, plbVars>>

NextEffTime == \E w \in BOOLEAN : DoTime(w)

InitEffTime == EffTimeStart /\ TimeIdleState /\ IndexIdle /\ PlbIdle

SpecEffTime == InitEffTime /\ [][NextEffTime]_vars

\* Speedup: millisecond-scale records on both sides of both thresholds.
BaseTotals == {Ms(100), Time(0, 100001000), Ms(40), Time(1, 0)}
CachedTotals == {Ms(0), Ms(40), Ms(100), Time(0, 100001000)}

SpeedupStart ==
    /\ mvar \in {Str_tree_40, Str_circle_4}
    /\ \E t \in BaseTotals, cc \in {Ms(0), Ms(1)}, rd \in {Ms(0), Ms(5)} :
          mb = RecordOf(mvar, Str_base, RawStats(t, cc, rd, Ms(0)))
    /\ \E t \in CachedTotals, cc \in {Ms(0), Ms(1)}, rd \in {Ms(0), Ms(5)},
          st \in {Ms(0), Ms(1)} :
          mc = RecordOf(mvar, Str_cached, RawStats(t, cc, rd, st))
    /\ mres = [op |-> "none"]

\* One pass of the loop body of to_table1_row on the pair (mb, mc).
DoTable1Entry ==
    /\ mres.op = "none"
    /\ mres' = [op |-> "entry", out |-> Table1Entry(mb, mc, mvar)]
    /\ UNCHANGED <<mb, mc, mvar>>
    /\ UNCHANGED <<timeVars, indexVars, plbVars>>

NextSpeedup == DoTable1Entry

InitSpeedup == SpeedupStart /\ TimeIdleState /\ IndexIdle /\ PlbIdle

SpecSpeedup == InitSpeedup /\ [][NextSpeedup]_vars

\* Time shares: a view holding one cached record under a variant with and
\* without "circle", over every combination of normalized Time fields whose
\* derived times lie between -2 s and 2 s, so that their nanosecond values
\* are 32-bit integers.
InNanoRange(t) == t.secs \in -2..1

SharesRecordInRange(c) ==
    /\ InNanoRange(c.stats.time)
    /\ InNanoRange(c.stats.circle_check_time)
    /\ InNanoRange(c.stats.cache_read_time)
    /\ InNanoRange(c.stats.cache_store_time)
    /\ InNanoRange(c.stats.cache_access_time)
    /\ InNanoRange(TimeSub(c.stats.time, c.stats.cache_access_time))
    /\ InNanoRange(TimeSub(c.stats.time, c.stats.circle_check_time))
    /\ InNanoRange(time_uncached(c.stats))
    /\ InNanoRange(BenchResult2_time(c, FALSE))

SharesStart ==
    /\ mvar \in {Str_tree_40, Str_circle_4}
    /\ \E t \in TimeInputs, cc \in TimeInputs, rd \in TimeInputs, st \in TimeInputs :
          mc = RecordOf(mvar, Str_cached, RawStats(t, cc, rd, st))
    /\ SharesRecordInRange(mc)
    /\ mb = [status |-> "none"]
    /\ mres = [op |-> "none"]

\* The row of to_table2_row for a view whose cached bucket of mvar is [mc].
DoTable2Row ==
    /\ mres.op = "none"
    /\ mres' = [op |-> "table2_row",
                out |-> Table2Row(VariationData(Str_sg_tree, Str_fan_pat, <<mvar>>),
                                  [status |-> "ok", base |-> <<>>, cached |-> (mvar :> <<mc>>)],
                                  mvar)]
    /\ UNCHANGED <<mb, mc, mvar>>
    /\ UNCHANGED <<timeVars, indexVars, plbVars>>

NextShares == DoTable2Row

InitShares == SharesStart /\ TimeIdleState /\ IndexIdle /\ PlbIdle

SpecShares == InitShares /\ [][NextShares]_vars

\* Cache size: every pair of a cache size and a graph size in the bounds,
\* which puts fractions below, on and above both thresholds.
MaxCacheSize == 21
MaxGraphSize == 2

SizedStats(cache_size, graph_size) ==
    [RawStats(Ms(40), Ms(1), Ms(5), Ms(0)) EXCEPT !.cache_size = cache_size,
                                                    !.graph_size = graph_size]

CacheSizeStart ==
    /\ \E cs \in 0..MaxCacheSize, gs \in 0..MaxGraphSize :
          mc = RecordOf(Str_tree_40, Str_cached, SizedStats(cs, gs))
    /\ mb = [status |-> "none"]
    /\ mvar = <<>>
    /\ mres = [op |-> "none"]

\* c.stats.cache_frac()
DoCacheFrac ==
    /\ mres.op = "none"
    /\ mres' = [op |-> "cache_frac", out |-> cache_frac(mc.stats)]
    /\ UNCHANGED <<mb, mc, mvar>>
    /\ UNCHANGED <<timeVars, indexVars, plbVars>>

\* The cache-size cell of to_table2_row for the record mc.
DoTable2CacheSize ==
    /\ mres.op = "none"
    /\ mres' = [op |-> "cache_size", out |-> Table2CacheSize(mc)]
    /\ UNCHANGED <<mb, mc, mvar>>
    /\ UNCHANGED <<timeVars, indexVars, plbVars>>

NextCacheSize == DoCacheFrac \/ DoTable2CacheSize

InitCacheSize == CacheSizeStart /\ TimeIdleState /\ IndexIdle /\ PlbIdle

SpecCacheSize == InitCacheSize /\ [][NextCacheSize]_vars

----------------------------------------------------------------------------
(* The script: load the document, look entries up, build a view and its    *)
(* comparison rows (lines 448-454, 507-520, 672-679).                      *)

Leaf(name, head_type, pattern_var, query_type, num_queries, stats_raw) ==
    [name |-> name, head_type |-> head_type, pattern_var |-> pattern_var,
     query_type |-> query_type, num_queries |-> num_queries,
     stats_raw |-> stats_raw]

\* The keys on the path of a leaf, as written in the document.
PathOf(leaf) ==
    <<leaf.name, leaf.head_type, leaf.pattern_var, leaf.query_type, leaf.num_queries>>

\* A JSON object holds each key once, and the nested loops of from_json
\* visit the leaves under one key together: paths are distinct, and leaves
\* sharing a path prefix are contiguous.
WellFormedDoc(d) ==
    /\ \A i, j \in 1..Len(d) : PathOf(d[i]) = PathOf(d[j]) => i = j
    /\ \A i, k \in 1..Len(d) : \A m \in 1..4 :
          (i < k /\ SubSeq(PathOf(d[i]), 1, m) = SubSeq(PathOf(d[k]), 1, m))
             => \A j \in i..k : SubSeq(PathOf(d[j]), 1, m) = SubSeq(PathOf(d[i]), 1, m)

\* doc is such a document in every state.
DocInvariant == WellFormedDoc(doc)

\* Whether leaf l may follow the well-formed document d: its path is new,
\* and a path prefix it shares with an earlier leaf is the prefix of the
\* last leaf (it continues the object that is being walked).
CanAppend(d, l) ==
    /\ \A i \in 1..Len(d) : PathOf(d[i]) # PathOf(l)
    /\ \A m \in 1..4 :
          (\E i \in 1..Len(d) : SubSeq(PathOf(d[i]), 1, m) = SubSeq(PathOf(l), 1, m))
             => SubSeq(PathOf(d[Len(d)]), 1, m) = SubSeq(PathOf(l), 1, m)

\* d with every leaf that may follow it.
Extensions(docs, leaves) ==
    {Append(x[1], x[2]) : x \in {y \in docs \X leaves : CanAppend(y[1], y[2])}}

Modes == {Str_base, Str_cached}

\* Lookup: names and heads that contain the "::" of to_str, and query-count
\* keys that parse to the same integer.
MaxLeaves == 2
IdxNames == {<<"a">>, <<"a", ":", ":", "b">>}
IdxHeads == {<<"c">>, <<"b", ":", ":", "c">>}
IdxNameHeads ==
    {<< <<"a">>, <<"c">> >>, << <<"a">>, <<"b", ":", ":", "c">> >>,
     << <<"a", ":", ":", "b">>, <<"c">> >>}
IdxNumKeys == {<<"1">>, <<"0", "1">>}
IdxStats == {RawStats(Ms(100), Ms(0), Ms(0), Ms(0)), RawStats(Ms(40), Ms(0), Ms(5), Ms(0))}
IdxLeaves ==
    {Leaf(nh[1], nh[2], Str_v, m, q, st) :
        nh \in IdxNameHeads, m \in Modes, q \in IdxNumKeys, st \in IdxStats}

NoneYet == [status |-> "none"]

\* The well-formed documents of up to MaxLeaves leaves, by length.
IdxDocs0 == {<<>>}
IdxDocs1 == IF MaxLeaves >= 1 THEN Extensions(IdxDocs0, IdxLeaves) ELSE {}
IdxDocs2 == IF MaxLeaves >= 2 THEN Extensions(IdxDocs1, IdxLeaves) ELSE {}
IdxDocs3 == IF MaxLeaves >= 3 THEN Extensions(IdxDocs2, IdxLeaves) ELSE {}
IdxDocs4 == IF MaxLeaves >= 4 THEN Extensions(IdxDocs3, IdxLeaves) ELSE {}
IdxDocs == IdxDocs0 \cup IdxDocs1 \cup IdxDocs2 \cup IdxDocs3 \cup IdxDocs4

IndexStart ==
    /\ doc \in IdxDocs
    /\ bench_data = <<>>
    /\ entry = NoneYet
    /\ vspec = NoneYet
    /\ view = NoneYet
    /\ rows = NoneYet
    /\ pc = "start"
    /\ load_status = NoneYet
    /\ series = NoneYet
    /\ chart = NoneYet
    /\ bench_vars = <<>>
    /\ heap = <<>>
    /\ rows2 = [status |-> "none"]

\* bench_data = load_results2(); an exception ends the script before
\* bench_data is bound.
Load ==
    /\ pc = "start"
    /\ LET res == load_results2(doc)
       IN  IF res.status = "ok"
           THEN /\ bench_data' = res.value
                /\ load_status' = [status |-> "ok"]
                /\ pc' = "loaded"
           ELSE /\ bench_data' = bench_data
                /\ load_status' = res
                /\ pc' = "failed"
    /\ UNCHANGED <<doc, entry, vspec, view, rows, series, chart, bench_vars, heap, rows2>>
    /\ UNCHANGED <<timeVars, metricVars, plbVars>>

\* get_entry(q, pattern_var, q_type) inside get_data(bench_data, var, ...);
\* the exception of a failed lookup ends the script.
GetEntry(name, head_type, pattern_var, q_type, q) ==
    /\ pc = "loaded"
    /\ entry' = get_entry(bench_data, name, head_type, pattern_var, q_type, q)
    /\ pc' = IF entry'.status = "ok" THEN "loaded" ELSE "failed"
    /\ UNCHANGED <<doc, bench_data, vspec, view, rows, load_status, series, chart, bench_vars, heap, rows2>>
    /\ UNCHANGED <<timeVars, metricVars, plbVars>>

NextIndex ==
    \/ Load
    \/ \E n \in IdxNames, h \in IdxHeads, m \in Modes, k \in 1..Len(NUM_QUERIES) :
          GetEntry(n, h, Str_v, m, NUM_QUERIES[k])

InitIndex == IndexStart /\ TimeIdleState /\ MetricIdle /\ PlbIdle

SpecIndex == InitIndex /\ [][NextIndex]_vars

\* Views: two variants with the query counts 5 and 10, whose keys sort the
\* other way round as strings.
MaxViewLeaves == 4
ViewNumKeys == {<<"5">>, <<"1", "0">>}
\* The stats of a leaf: the total grows with the query count, so that a
\* value derived from a record tells which record it was.
ViewStats(mode, q) ==
    IF mode = Str_base THEN RawStats(Ms(100 + ParseInt(q)), Ms(0), Ms(0), Ms(0))
                       ELSE RawStats(Ms(40 + ParseInt(q)), Ms(1), Ms(5), Ms(0))
\* Besides the leaves of sg_tree with the fanout head, two leaves under
\* another head and two under another pattern name.
ViewLeaves ==
    {Leaf(Str_sg_tree, Str_fan_pat, pv, m, q, ViewStats(m, q)) :
        pv \in {Str_tree_40, Str_circle_4}, m \in Modes, q \in ViewNumKeys}
    \cup {Leaf(Str_sg_tree, Str_lin_pat, Str_tree_40, m, <<"5">>, ViewStats(m, <<"5">>)) : m \in Modes}
    \cup {Leaf(Str_sg_circle, Str_fan_pat, Str_circle_4, m, <<"5">>, ViewStats(m, <<"5">>)) : m \in Modes}
VSpecs ==
    {VariationData(Str_sg_tree, Str_fan_pat, <<Str_tree_40>>),
     VariationData(Str_sg_tree, Str_fan_pat, <<Str_tree_40, Str_circle_4>>),
     VariationData(Str_sg_tree, Str_lin_pat, <<Str_tree_40>>),
     VariationData(Str_sg_circle, Str_fan_pat, <<Str_circle_4>>)}

\* The well-formed documents of up to MaxViewLeaves leaves, by length.
ViewDocs0 == {<<>>}
ViewDocs1 == IF MaxViewLeaves >= 1 THEN Extensions(ViewDocs0, ViewLeaves) ELSE {}
ViewDocs2 == IF MaxViewLeaves >= 2 THEN Extensions(ViewDocs1, ViewLeaves) ELSE {}
ViewDocs3 == IF MaxViewLeaves >= 3 THEN Extensions(ViewDocs2, ViewLeaves) ELSE {}
ViewDocs4 == IF MaxViewLeaves >= 4 THEN Extensions(ViewDocs3, ViewLeaves) ELSE {}
ViewDocs5 == IF MaxViewLeaves >= 5 THEN Extensions(ViewDocs4, ViewLeaves) ELSE {}
ViewDocs6 == IF MaxViewLeaves >= 6 THEN Extensions(ViewDocs5, ViewLeaves) ELSE {}
ViewDocs7 == IF MaxViewLeaves >= 7 THEN Extensions(ViewDocs6, ViewLeaves) ELSE {}
ViewDocs ==
    ViewDocs0 \cup ViewDocs1 \cup ViewDocs2 \cup ViewDocs3 \cup ViewDocs4
        \cup ViewDocs5 \cup ViewDocs6 \cup ViewDocs7

ViewStart ==
    /\ doc \in ViewDocs
    /\ bench_data = <<>>
    /\ entry = NoneYet
    /\ vspec = NoneYet
    /\ view = NoneYet
    /\ rows = NoneYet
    /\ pc = "start"
    /\ load_status = NoneYet
    /\ series = NoneYet
    /\ chart = NoneYet
    /\ bench_vars = <<>>
    /\ heap = <<>>
    /\ rows2 = [status |-> "none"]

\* var = BenchResultVariation(v, bench_data)
BuildView(v) ==
    /\ pc = "loaded"
    /\ vspec' = v
    /\ view' = BenchResultVariation(v, bench_data)
    /\ pc' = IF view'.status = "ok" THEN "viewed" ELSE "failed"
    /\ UNCHANGED <<doc, bench_data, entry, rows, load_status, series, chart, bench_vars, heap, rows2>>
    /\ UNCHANGED <<timeVars, metricVars, plbVars>>

\* v.to_table1_row()
ToTable1Row ==
    /\ pc = "viewed"
    /\ rows' = to_table1_row(vspec, view)
    /\ pc' = IF rows'.status = "ok" THEN "table1" ELSE "failed"
    /\ UNCHANGED <<doc, bench_data, entry, vspec, view, load_status, series, chart, bench_vars, heap, rows2>>
    /\ UNCHANGED <<timeVars, metricVars, plbVars>>

\* v.to_table2_row()
ToTable2Row ==
    /\ pc = "viewed"
    /\ rows2' = to_table2_row(vspec, view)
    /\ pc' = IF rows2'.status = "ok" THEN "table2" ELSE "failed"
    /\ UNCHANGED <<doc, bench_data, entry, vspec, view, rows, load_status, series, chart, bench_vars, heap>>
    /\ UNCHANGED <<timeVars, metricVars, plbVars>>

\* v.base_var(pattern_var[k])
BaseVar(k) ==
    /\ pc = "viewed"
    /\ k \in 1..Len(vspec.pattern_var)
    /\ series' = [status |-> "done", mode |-> Str_base, variant |-> vspec.pattern_var[k],
                  out |-> base_var(view, vspec.pattern_var[k])]
    /\ pc' = IF series'.out.status = "ok" THEN "series" ELSE "failed"
    /\ UNCHANGED <<doc, bench_data, entry, vspec, view, rows, load_status, chart, bench_vars, heap, rows2>>
    /\ UNCHANGED <<timeVars, metricVars, plbVars>>

\* v.cached_var(pattern_var[k])
CachedVar(k) ==
    /\ pc = "viewed"
    /\ k \in 1..Len(vspec.pattern_var)
    /\ series' = [status |-> "done", mode |-> Str_cached, variant |-> vspec.pattern_var[k],
                  out |-> cached_var(view, vspec.pattern_var[k])]
    /\ pc' = IF series'.out.status = "ok" THEN "series" ELSE "failed"
    /\ UNCHANGED <<doc, bench_data, entry, vspec, view, rows, load_status, chart, bench_vars, heap, rows2>>
    /\ UNCHANGED <<timeVars, metricVars, plbVars>>

MaxVariants == 2

NextView ==
    \/ Load
    \/ \E v \in VSpecs : BuildView(v)
    \/ ToTable1Row
    \/ ToTable2Row
    \/ \E k \in 1..MaxVariants : BaseVar(k)
    \/ \E k \in 1..MaxVariants : CachedVar(k)

InitView == ViewStart /\ TimeIdleState /\ MetricIdle /\ PlbIdle

SpecView == InitView /\ [][NextView]_vars

\* The whole script: documents that hold, for one pattern name, every
\* (variant, mode, query count) of a list of variants, or all but the
\* first or the last; the query-count keys in two orders.
MaxViews == 2
ScriptNames == {Str_sg_tree, Str_sg_circle}
ScriptVariants == {<<Str_tree_40>>, <<Str_tree_40, Str_circle_4>>}
ScriptKeyOrders == {<<1, 2, 3>>, <<3, 1, 2>>}
ScriptModes == <<Str_base, Str_cached>>

\* The stats of a leaf: every leaf of a document has its own total.
ScriptStats(pv, mode, q) ==
    LET off == IF pv = Str_tree_40 THEN 0 ELSE 20
    IN  IF mode = Str_base
        THEN RawStats(Ms(100 + off + ParseInt(q)), Ms(0), Ms(0), Ms(0))
        ELSE RawStats(Ms(40 + off + ParseInt(q)), Ms(1), Ms(5), Ms(2))

\* The document of name and variants, keys in the order ord, in the order
\* its nested objects are walked.
GridDoc(name, variants, ord) ==
    [i \in 1..(Len(variants) * 6) |->
        LET pv == variants[((i - 1) \div 6) + 1]
            mode == ScriptModes[(((i - 1) % 6) \div 3) + 1]
            q == NUM_QUERIES[ord[((i - 1) % 3) + 1]]
        IN  Leaf(name, Str_fan_pat, pv, mode, q, ScriptStats(pv, mode, q))]

\* d, d without its first leaf and d without its last leaf.
WithDrops(d) == {d, SubSeq(d, 2, Len(d)), SubSeq(d, 1, Len(d) - 1)}

ScriptDocs ==
    UNION {WithDrops(GridDoc(n, vs, ord)) :
             n \in ScriptNames, vs \in ScriptVariants, ord \in ScriptKeyOrders}

\* The second spec lists a circle variant under a name without "circle";
\* the third lists its variants against the order of the document, one of
\* them without "circle", under a name with it.
ScriptSpecs ==
    {VariationData(Str_sg_tree, Str_fan_pat, <<Str_tree_40>>),
     VariationData(Str_sg_tree, Str_fan_pat, <<Str_tree_40, Str_circle_4>>),
     VariationData(Str_sg_circle, Str_fan_pat, <<Str_circle_4, Str_tree_40>>)}

ScriptStart ==
    /\ doc \in ScriptDocs
    /\ bench_data = <<>>
    /\ entry = NoneYet
    /\ vspec = NoneYet
    /\ view = NoneYet
    /\ rows = NoneYet
    /\ pc = "start"
    /\ load_status = NoneYet
    /\ series = NoneYet
    /\ chart = NoneYet
    /\ bench_vars = <<>>
    /\ heap = <<>>
    /\ rows2 = NoneYet

\* var = BenchResultVariation(v, bench_data); bench_vars.append(var)
AppendView(v) ==
    /\ pc = "loaded"
    /\ Len(bench_vars) < MaxViews
    /\ LET res == ViewHeapAfter(v, bench_data, heap, Len(bench_data))
       IN  /\ heap' = res.heap
           /\ IF res.status = "ok"
              THEN /\ bench_vars' = Append(bench_vars, [var |-> v, base |-> res.base, cached |-> res.cached])
                   /\ pc' = "loaded"
              ELSE /\ bench_vars' = bench_vars
                   /\ pc' = "failed"
    /\ UNCHANGED <<doc, bench_data, entry, vspec, view, rows, load_status, series, chart, rows2>>
    /\ UNCHANGED <<timeVars, metricVars, plbVars>>

\* bench_vars[k].to_table1_row()
Table1Of(k) ==
    /\ pc = "loaded"
    /\ k \in 1..Len(bench_vars)
    /\ rows' = [view |-> k] @@ to_table1_row(bench_vars[k].var, Deref(bench_vars[k], heap))
    /\ pc' = IF rows'.status = "ok" THEN "loaded" ELSE "failed"
    /\ UNCHANGED <<doc, bench_data, entry, vspec, view, load_status, series, chart, bench_vars, heap, rows2>>
    /\ UNCHANGED <<timeVars, metricVars, plbVars>>

\* bench_vars[k].to_table2_row()
Table2Of(k) ==
    /\ pc = "loaded"
    /\ k \in 1..Len(bench_vars)
    /\ rows2' = [view |-> k] @@ to_table2_row(bench_vars[k].var, Deref(bench_vars[k], heap))
    /\ pc' = IF rows2'.status = "ok" THEN "loaded" ELSE "failed"
    /\ UNCHANGED <<doc, bench_data, entry, vspec, view, rows, load_status, series, chart, bench_vars, heap>>
    /\ UNCHANGED <<timeVars, metricVars, plbVars>>

\* y = get_data(bench_data, var, False) in plot_var
GetData(v) ==
    /\ pc = "loaded"
    /\ chart' = [var |-> v] @@ get_data(bench_data, v)
    /\ pc' = IF chart'.status = "ok" THEN "loaded" ELSE "failed"
    /\ UNCHANGED <<doc, bench_data, entry, vspec, view, rows, load_status, series, bench_vars, heap, rows2>>
    /\ UNCHANGED <<timeVars, metricVars, plbVars>>

NextScript ==
    \/ Load
    \/ \E v \in ScriptSpecs : AppendView(v)
    \/ \E k \in 1..MaxViews : Table1Of(k)
    \/ \E k \in 1..MaxViews : Table2Of(k)
    \/ \E v \in ScriptSpecs : GetData(v)

InitScript == ScriptStart /\ TimeIdleState /\ MetricIdle /\ PlbIdle

SpecScript == InitScript /\ [][NextScript]_vars

\* Break-even lookups, before and after the records are loaded.
BreakEvenHeads == {Str_fan_pat, Str_lin_pat, Str_fan, <<"c">>}
BreakEvenNames ==
    {Str_sg_tree, Str_sg_linear, Str_sg_diamond, Str_sg_circle, <<"s", "g", "_", "x">>}

\* get_break_even(head, name)
BreakEven(head, name) ==
    /\ pc \in {"start", "loaded"}
    /\ mres' = [op |-> "break_even", head |-> head, name |-> name,
                out |-> get_break_even(head, name)]
    /\ UNCHANGED <<mb, mc, mvar>>
    /\ UNCHANGED <<timeVars, indexVars, plbVars>>

NextBreakEven ==
    \/ Load
    \/ \E h \in BreakEvenHeads, n \in BreakEvenNames : BreakEven(h, n)

InitBreakEven == ScriptStart /\ TimeIdleState /\ MetricIdle /\ PlbIdle

SpecBreakEven == InitBreakEven /\ [][NextBreakEven]_vars

\* Loading: leaves whose stats object lacks one field, whose Time object
\* lacks secs or nanos, and query-count keys that are zero, negative and
\* not a number.
MaxLoadLeaves == 2
GoodRaw == RawStats(Ms(100), Ms(0), Ms(0), Ms(0))

\* The object raw without the key f.
Without(raw, f) == [k \in (DOMAIN raw) \ {f} |-> raw[k]]

LoadRaws ==
    {Without(GoodRaw, f) : f \in StatsFields}
    \cup {[GoodRaw EXCEPT !.time = Without(@, f)] : f \in {"secs", "nanos"}}
    \cup {[GoodRaw EXCEPT !.cache_store_time = Without(@, f)] : f \in {"secs", "nanos"}}
LoadKeys == {<<"1">>, <<"0">>, <<"-", "1">>, <<"x">>, <<>>}
LoadLeaves ==
    {Leaf(Str_sg_tree, Str_fan_pat, Str_tree_40, m, q, GoodRaw) : m \in Modes, q \in LoadKeys}
    \cup {Leaf(Str_sg_tree, Str_fan_pat, Str_tree_40, m, <<"1">>, raw) : m \in Modes, raw \in LoadRaws}

LoadDocs0 == {<<>>}
LoadDocs1 == IF MaxLoadLeaves >= 1 THEN Extensions(LoadDocs0, LoadLeaves) ELSE {}
LoadDocs2 == IF MaxLoadLeaves >= 2 THEN Extensions(LoadDocs1, LoadLeaves) ELSE {}
LoadDocs3 == IF MaxLoadLeaves >= 3 THEN Extensions(LoadDocs2, LoadLeaves) ELSE {}
LoadDocs == LoadDocs0 \cup LoadDocs1 \cup LoadDocs2 \cup LoadDocs3

LoadStart ==
    /\ doc \in LoadDocs
    /\ bench_data = <<>>
    /\ entry = NoneYet
    /\ vspec = NoneYet
    /\ view = NoneYet
    /\ rows = NoneYet
    /\ pc = "start"
    /\ load_status = NoneYet
    /\ series = NoneYet
    /\ chart = NoneYet
    /\ bench_vars = <<>>
    /\ heap = <<>>
    /\ rows2 = [status |-> "none"]

NextLoad == Load

InitLoad == LoadStart /\ TimeIdleState /\ MetricIdle /\ PlbIdle

SpecLoad == InitLoad /\ [][NextLoad]_vars

----------------------------------------------------------------------------
(* SuperFigure: plotlib.py lines 125-172, 419-432                          *)

MaxPlbCalls == 4

\* The two setup steps call matplotlib and have no handler: a call that
\* raises ends init_plb there and the exception reaches the caller.
SetupOutcomes == {"ok", "raise_color_order", "raise_latex_font"}

\* nrows and ncols of subplots.
GridSizes == {1, 2}

\* The class state init_plb reads and writes.
PlbState == [is_init |-> is_init, prints |-> plb_prints, color_sets |-> color_sets, font_sets |-> font_sets]

\* Faulty variant of init_plb: the test of the flag (line 145) is left out.
init_plb_unguarded(s, o) ==
    LET printed == [s EXCEPT !.prints = @ + 1]
        coloured == [printed EXCEPT !.color_sets = @ + 1]
    IN  IF o = "raise_color_order" THEN [st |-> printed, raised |-> TRUE]
        ELSE IF o = "raise_latex_font" THEN [st |-> coloured, raised |-> TRUE]
        ELSE [st |-> [coloured EXCEPT !.font_sets = @ + 1, !.is_init = TRUE], raised |-> FALSE]

\* init_plb: return at once when the flag is set; else print, set the
\* colour order, set the LaTeX font, and only then set the flag.
init_plb(s, o) ==
    IF s.is_init THEN [st |-> s, raised |-> FALSE]
    ELSE LET printed == [s EXCEPT !.prints = @ + 1]
             coloured == [printed EXCEPT !.color_sets = @ + 1]
         IN  IF o = "raise_color_order" THEN [st |-> printed, raised |-> TRUE]
             ELSE IF o = "raise_latex_font" THEN [st |-> coloured, raised |-> TRUE]
             ELSE [st |-> [coloured EXCEPT !.font_sets = @ + 1, !.is_init = TRUE], raised |-> FALSE]

\* The class state after a call of init_plb.
PlbStateBecomes(r) ==
    /\ is_init' = r.st.is_init
    /\ plb_prints' = r.st.prints
    /\ color_sets' = r.st.color_sets
    /\ font_sets' = r.st.font_sets

\* SuperFigure.init_plb()
InitPlb(o) ==
    /\ plb_calls < MaxPlbCalls
    /\ LET r == init_plb(PlbState, o)
       IN  /\ PlbStateBecomes(r)
           /\ plb_ret' = IF r.raised THEN [kind |-> "raised", by |-> o] ELSE [kind |-> "None"]
    /\ plb_calls' = plb_calls + 1
    /\ UNCHANGED plb_figs
    /\ UNCHANGED <<timeVars, metricVars, indexVars>>

\* SuperFigure.figure(): init_plb, then plt.figure, then fig.axes[0] on a
\* figure that has no axes.
Figure(o) ==
    /\ plb_calls < MaxPlbCalls
    /\ LET r == init_plb(PlbState, o)
       IN  /\ PlbStateBecomes(r)
           /\ IF r.raised
                 THEN /\ plb_ret' = [kind |-> "raised", by |-> o]
                      /\ UNCHANGED plb_figs
                 ELSE /\ plb_figs' = plb_figs + 1
                      /\ plb_ret' = [kind |-> "IndexError"]
    /\ plb_calls' = plb_calls + 1
    /\ UNCHANGED <<timeVars, metricVars, indexVars>>

\* SuperFigure.subplots(nrows, ncols): init_plb, then plt.subplots.
Subplots(nrows, ncols, o) ==
    /\ plb_calls < MaxPlbCalls
    /\ LET r == init_plb(PlbState, o)
       IN  /\ PlbStateBecomes(r)
           /\ IF r.raised
                 THEN /\ plb_ret' = [kind |-> "raised", by |-> o]
                      /\ UNCHANGED plb_figs
                 ELSE /\ plb_figs' = plb_figs + 1
                      /\ plb_ret' = [kind |-> "SuperFigure", fig |-> plb_figs + 1, axs |-> nrows * ncols]
    /\ plb_calls' = plb_calls + 1
    /\ UNCHANGED <<timeVars, metricVars, indexVars>>

NextPlb ==
    \/ \E o \in SetupOutcomes : InitPlb(o)
    \/ \E o \in SetupOutcomes : Figure(o)
    \/ \E nrows \in GridSizes, ncols \in GridSizes, o \in SetupOutcomes : Subplots(nrows, ncols, o)

InitPlbSpec == PlbIdle /\ TimeIdleState /\ MetricIdle /\ IndexIdle

SpecPlb == InitPlbSpec /\ [][NextPlb]_vars

----------------------------------------------------------------------------
(* Claims about the loaded records and the lookup.                         *)

\* The records of the loaded list whose five key fields are the requested ones.
ExactMatches == {i \in 1..Len(bench_data) : KeyOf(bench_data[i]) = entry.key}

\* The 5-tuple key of a leaf of the document.
LeafKey(leaf) ==
    <<leaf.name, leaf.head_type, leaf.pattern_var, leaf.query_type,
      ParseInt(leaf.num_queries)>>

\* C1: a lookup fails, reporting the full key, whenever no loaded record has
\* exactly the five requested field values, and never returns a record whose
\* key fields differ from the requested ones, whatever the key strings are.
C1_ExactLookup ==
    entry.status # "none" =>
        /\ ExactMatches = {} => entry.status = "error"
        /\ entry.status = "error" => entry.msg = to_str([name |-> entry.key[1],
              head_type |-> entry.key[2], pattern_var |-> entry.key[3],
              query_type |-> entry.key[4], num_queries |-> entry.key[5]])
        /\ entry.status = "ok" => KeyOf(bench_data[entry.idx]) = entry.key

\* C2: one record per leaf, and looking up the key of any leaf returns the
\* record built from that leaf, with that leaf's stats.
C2_RoundTrip ==
    /\ pc # "start" => Len(bench_data) = Len(doc)
    /\ entry.status # "none" =>
          \A i \in 1..Len(doc) :
              LeafKey(doc[i]) = entry.key =>
                  /\ entry.status = "ok"
                  /\ entry.idx = i
                  /\ bench_data[entry.idx].stats = BenchStats_from_json(doc[i].stats_raw)

\* C3: a build that completes never holds two records with the same 5-tuple
\* key (a document with two such leaves is rejected).
C3_DuplicateKeyRejected ==
    pc # "start" =>
        \A i, j \in 1..Len(bench_data) :
            KeyOf(bench_data[i]) = KeyOf(bench_data[j]) => i = j

\* C4: a lookup whose key is held by more than one loaded record fails: it
\* returns no record.
C4_AmbiguousLookupFails ==
    entry.status # "none" =>
        (Cardinality(ExactMatches) > 1 => entry.status = "error")

----------------------------------------------------------------------------
(* Claims about the comparison rows.                                       *)

\* The baseline and cached series of variant pv are aligned: same length,
\* same query count at every index.
Aligned(pv) ==
    /\ Len(view.base[pv]) = Len(view.cached[pv])
    /\ \A k \in 1..Len(view.base[pv]) :
          view.base[pv][k].num_queries = view.cached[pv][k].num_queries

\* C5: comparison rows are only emitted for variants whose baseline and
\* cached series are aligned; a length or query-count mismatch is an error.
C5_AlignmentChecked ==
    rows.status = "ok" =>
        \A k \in 1..Len(vspec.pattern_var) : Aligned(vspec.pattern_var[k])

----------------------------------------------------------------------------
\* C9: for normalized operands, a + b and a - b are normalized and carry the
\* sum, respectively the difference, of the operands' nanosecond values,
\* also when the difference is negative.
C9_Normalization ==
    /\ tpc = "add" =>
          /\ Normalized(tr)
          /\ SameNanoValue(tr, ta.secs + tb.secs, ta.nanos + tb.nanos)
    /\ tpc = "sub" =>
          /\ Normalized(tr)
          /\ SameNanoValue(tr, ta.secs - tb.secs, ta.nanos - tb.nanos)

\* A carry at exactly 1e9 has happened, and a borrow into negative seconds.
C9_Witness ==
    \/ tpc = "add" /\ ta.nanos + tb.nanos = NANOS_PER_SEC /\ tr.nanos = 0
    \/ tpc = "sub" /\ tr.secs < 0 /\ ta.nanos < tb.nanos

\* C10: adding b to a and subtracting b again returns exactly a.
C10_RoundTrip == tpc = "addsub" => (tr.secs = ta.secs /\ tr.nanos = ta.nanos)

\* The round trip went through a carry and the matching borrow.
C10_Witness ==
    /\ tpc = "addsub"
    /\ ta.nanos + tb.nanos >= NANOS_PER_SEC
    /\ tr = ta
    /\ tb.nanos > 0

----------------------------------------------------------------------------
\* C8: time(True) is the record's total time unchanged; time(False) is
\* normalized and its nanosecond value is the total minus the circle-check
\* time only, for every record with normalized Time fields.
C8_EffectiveTime ==
    mres.op = "time" =>
        IF mres.with_circle
        THEN mres.value = mc.stats.time
        ELSE /\ Normalized(mres.value)
             /\ SameNanoValue(mres.value,
                              mc.stats.time.secs - mc.stats.circle_check_time.secs,
                              mc.stats.time.nanos - mc.stats.circle_check_time.nanos)
             \* cache_access = cache_read + cache_store
             /\ SameNanoValue(mc.stats.cache_access_time,
                              mc.stats.cache_read_time.secs + mc.stats.cache_store_time.secs,
                              mc.stats.cache_read_time.nanos + mc.stats.cache_store_time.nanos)
             \* time_uncached = total - cache_access - circle_check
             /\ SameNanoValue(time_uncached(mc.stats),
                              mc.stats.time.secs - mc.stats.cache_access_time.secs
                                  - mc.stats.circle_check_time.secs,
                              mc.stats.time.nanos - mc.stats.cache_access_time.nanos
                                  - mc.stats.circle_check_time.nanos)

\* time(False) on a record with a non-zero circle-check time and cache
\* times whose sum carries into the seconds.
C8_Witness ==
    /\ mres.op = "time"
    /\ ~mres.with_circle
    /\ mc.stats.circle_check_time.nanos > mc.stats.time.nanos
    /\ mc.stats.cache_read_time.nanos + mc.stats.cache_store_time.nanos >= NANOS_PER_SEC

\* num/den exceeds 1.0001 (for 0 < den < 2e9), by cross-multiplication.
ExceedsGoodMargin(num, den) ==
    IF num - den >= 200000 THEN TRUE ELSE 10000 * (num - den) > den

PositiveTimes == mres.out.exec_time_base > 0 /\ mres.out.exec_time_cached > 0

\* C6 as stated: a strictly smaller candidate time is always marked good, a
\* strictly greater one always bad.
C6_Monotonic_AsStated ==
    (mres.op = "entry" /\ mres.out.status = "ok" /\ PositiveTimes) =>
        /\ mres.out.exec_time_cached < mres.out.exec_time_base
              => mres.out.mark = "positive"
        /\ mres.out.exec_time_cached > mres.out.exec_time_base
              => mres.out.mark = "negative"

\* C6 amended: a strictly greater candidate time is marked bad; a strictly
\* smaller one is never bad, and is marked good exactly when the baseline
\* exceeds it by more than the factor 1.0001 (otherwise it is unmarked).
C6_Monotonic ==
    (mres.op = "entry" /\ mres.out.status = "ok" /\ PositiveTimes) =>
        /\ mres.out.exec_time_cached > mres.out.exec_time_base
              => mres.out.mark = "negative"
        /\ mres.out.exec_time_cached < mres.out.exec_time_base
              => mres.out.mark =
                    IF ExceedsGoodMargin(mres.out.exec_time_base, mres.out.exec_time_cached)
                    THEN "positive" ELSE "plain"

\* A candidate strictly faster than the baseline, inside the neutral band.
C6_Witness ==
    /\ mres.op = "entry"
    /\ mres.out.status = "ok"
    /\ mres.out.exec_time_cached > 0
    /\ mres.out.exec_time_cached < mres.out.exec_time_base
    /\ mres.out.mark = "plain"

FlagOf(var) == Contains(Str_circle, var)

\* C7: the speedup is the baseline's total time over the cached record's
\* effective time (total, less the circle-check time when the flag is off);
\* baseline 100ms against cached 40ms with 5ms cache access and no circle
\* check gives effective 40ms, speedup 2.5, marked good.
C7_Speedup ==
    (mres.op = "entry" /\ mres.out.status = "ok") =>
        /\ mres.out.speedup.num
              = mb.stats.time.secs * NANOS_PER_SEC + mb.stats.time.nanos
        /\ mres.out.speedup.den
              = (mc.stats.time.secs * NANOS_PER_SEC + mc.stats.time.nanos)
                - (IF FlagOf(mvar) THEN 0
                   ELSE mc.stats.circle_check_time.secs * NANOS_PER_SEC
                        + mc.stats.circle_check_time.nanos)
        /\ ( /\ mb.stats.time = Ms(100)
             /\ mc.stats.time = Ms(40)
             /\ mc.stats.cache_access_time = Ms(5)
             /\ mc.stats.circle_check_time = Ms(0)
             /\ ~FlagOf(mvar) )
           => /\ mres.out.exec_time_cached = 40000000
              /\ 2 * mres.out.speedup.num = 5 * mres.out.speedup.den
              /\ mres.out.mark = "positive"

\* The worked example, with a baseline that has cache and circle-check
\* components of its own.
C7_Witness ==
    /\ mres.op = "entry"
    /\ mres.out.status = "ok"
    /\ mb.stats.time = Ms(100)
    /\ mb.stats.cache_access_time = Ms(5)
    /\ mb.stats.circle_check_time = Ms(1)
    /\ mc.stats.time = Ms(40)
    /\ mc.stats.cache_access_time = Ms(5)
    /\ mc.stats.circle_check_time = Ms(0)
    /\ ~FlagOf(mvar)

----------------------------------------------------------------------------
\* C11: cache_frac never raises; it is exactly 0 when graph_size is 0,
\* whatever cache_size is, and cache_size / graph_size otherwise.
C11_CacheFrac ==
    mres.op = "cache_frac" =>
        /\ mres.out.status = "ok"
        /\ mc.stats.graph_size = 0 => mres.out.num = 0 /\ mres.out.den # 0
        /\ mc.stats.graph_size # 0 =>
              mres.out.num * mc.stats.graph_size = mc.stats.cache_size * mres.out.den

\* cache_frac on a record with an empty graph and a non-empty cache.
C11_Witness ==
    /\ mres.op = "cache_frac"
    /\ mc.stats.graph_size = 0
    /\ mc.stats.cache_size > 0
    /\ mres.out.status = "ok"

\* C12: the cache fraction is marked good exactly when it is below 1, bad
\* exactly when it is above 10, and unmarked exactly from 1 to 10; one of
\* the three always applies.
C12_SizeClassification ==
    (mres.op = "cache_size" /\ mres.out.status = "ok") =>
        LET cs == IF mc.stats.graph_size = 0 THEN 0 ELSE mc.stats.cache_size
            gs == IF mc.stats.graph_size = 0 THEN 1 ELSE mc.stats.graph_size
        IN  /\ mres.out.mark \in {"positive", "negative", "plain"}
            /\ mres.out.mark = "positive" <=> cs < gs
            /\ mres.out.mark = "negative" <=> cs > 10 * gs
            /\ mres.out.mark = "plain" <=> (gs <= cs /\ cs <= 10 * gs)

\* A fraction of exactly 10 has been classified as unmarked.
C12_Witness ==
    /\ mres.op = "cache_size"
    /\ mres.out.status = "ok"
    /\ mc.stats.graph_size > 0
    /\ mc.stats.cache_size = 10 * mc.stats.graph_size
    /\ mres.out.mark = "plain"

----------------------------------------------------------------------------
(* Claims about the view.                                                  *)

\* The places in the loaded list of the records a view of spec var collects
\* under (mode, pv).
MatchingRecords(var, mode, pv) ==
    {i \in 1..Len(bench_data) :
        /\ bench_data[i].name = var.name
        /\ bench_data[i].head_type = var.head_type
        /\ bench_data[i].pattern_var = pv
        /\ bench_data[i].query_type = mode}

\* The records the view holds under (mode, pv): none when it has no bucket there.
BucketOf(data, mode, pv) ==
    LET m == IF mode = Str_base THEN data.base ELSE data.cached
    IN  IF pv \in DOMAIN m THEN m[pv] ELSE <<>>

CountIn(seq, r) == Cardinality({k \in 1..Len(seq) : seq[k] = r})

Ascending(bucket) ==
    \A j, k \in 1..Len(bucket) : j < k => bucket[j].num_queries <= bucket[k].num_queries

\* C13: after a view is built, for every mode and every variant of the
\* spec the records held under (mode, variant) are exactly the loaded
\* records with the spec's name and head and that variant and mode, each
\* as often as it is loaded, in ascending order of query count.
C13_ViewBuild ==
    view.status = "ok" =>
        \A mode \in Modes : \A n \in 1..Len(vspec.pattern_var) :
            LET pv == vspec.pattern_var[n]
                bucket == BucketOf(view, mode, pv)
                want == MatchingRecords(vspec, mode, pv)
            IN  /\ Len(bucket) = Cardinality(want)
                /\ \A i \in want : CountIn(bucket, bench_data[i]) = 1
                /\ \A k \in 1..Len(bucket) : \E i \in want : bucket[k] = bench_data[i]
                /\ Ascending(bucket)

\* A view whose bucket holds two records that were loaded in descending
\* order of query count, built from a list that also holds a record of
\* another head or name and one of a variant the spec does not list.
C13_Witness ==
    /\ view.status = "ok"
    /\ \E mode \in Modes : \E n \in 1..Len(vspec.pattern_var) :
          LET want == MatchingRecords(vspec, mode, vspec.pattern_var[n])
          IN  /\ Len(BucketOf(view, mode, vspec.pattern_var[n])) = 2
              /\ \E i, j \in want :
                    i < j /\ bench_data[i].num_queries > bench_data[j].num_queries
    /\ \E i \in 1..Len(bench_data) :
          bench_data[i].name # vspec.name \/ bench_data[i].head_type # vspec.head_type
    /\ \E i \in 1..Len(bench_data) :
          /\ bench_data[i].name = vspec.name
          /\ bench_data[i].head_type = vspec.head_type
          /\ ~InSeq(bench_data[i].pattern_var, vspec.pattern_var)

\* C14: building a view for a spec that lists a variant without matching
\* records succeeds, and base_var / cached_var of that variant return an
\* empty list.
C14_EmptyBucket ==
    /\ (pc = "failed" /\ rows.status = "none" /\ rows2.status = "none"
          /\ series.status = "none") =>
          view.status # "error"
    /\ (series.status = "done"
          /\ MatchingRecords(vspec, series.mode, series.variant) = {}) =>
             /\ series.out.status = "ok"
             /\ series.out.value = <<>>

----------------------------------------------------------------------------
\* Whether a leaf is malformed: a required field is missing, or its
\* query-count key is not a positive integer.
Malformed(leaf) ==
    \/ ~(StatsFields \subseteq DOMAIN leaf.stats_raw)
    \/ \E f \in TimeFields \cap DOMAIN leaf.stats_raw :
          ~({"secs", "nanos"} \subseteq DOMAIN leaf.stats_raw[f])
    \/ ~IsIntLiteral(leaf.num_queries)
    \/ ParseInt(leaf.num_queries) <= 0

\* C15: a document with a malformed leaf is not loaded: the build fails
\* and leaves no record list.
C15_MalformedRejected ==
    (load_status.status # "none" /\ \E i \in 1..Len(doc) : Malformed(doc[i])) =>
        /\ load_status.status = "error"
        /\ bench_data = <<>>

----------------------------------------------------------------------------
\* The nanosecond value of a Time of less than two seconds.
Nanos(t) == t.secs * NANOS_PER_SEC + t.nanos

\* The loaded cached records of variant pv of the spec with the largest query count.
LargestCached(pv) ==
    {i \in MatchingRecords(vspec, Str_cached, pv) :
        \A j \in MatchingRecords(vspec, Str_cached, pv) :
            bench_data[j].num_queries <= bench_data[i].num_queries}

\* C16: the cache-size rows are one row per variant of the spec, in the
\* spec's order, each holding the values of the loaded cached record of
\* that variant with the largest query count; with a variant that has no
\* cached record the call fails.
C16_CacheSizeRows ==
    rows2.status # "none" =>
        /\ (\E n \in 1..Len(vspec.pattern_var) :
                MatchingRecords(vspec, Str_cached, vspec.pattern_var[n]) = {})
              => rows2.status = "error"
        /\ rows2.status = "ok" =>
              /\ Len(rows2.rows) = Len(vspec.pattern_var)
              /\ \A n \in 1..Len(vspec.pattern_var) :
                    LET pv == vspec.pattern_var[n]
                        row == rows2.rows[n]
                    IN  /\ row.pattern = pattern_var_display_name(pv).value
                        /\ \E i \in LargestCached(pv) :
                              LET st == bench_data[i].stats
                              IN  /\ row.cache_time.num = Nanos(st.cache_read_time) + Nanos(st.cache_store_time)
                                  /\ row.exec_time_cached.num
                                        = Nanos(st.time) - Nanos(st.cache_read_time)
                                          - Nanos(st.cache_store_time) - Nanos(st.circle_check_time)
                                  /\ row.circle_time.num \in {0, Nanos(st.circle_check_time)}
                                  /\ row.exec_time_cached.den = row.exec_time_cached.num
                                        + row.cache_time.num + row.circle_time.num
                                  /\ row.cache_time.den = row.exec_time_cached.den
                                  /\ row.circle_time.den = row.exec_time_cached.den
                                  /\ row.cache_size.frac.num * (IF st.graph_size = 0 THEN 1 ELSE st.graph_size)
                                        = (IF st.graph_size = 0 THEN 0 ELSE st.cache_size)
                                          * row.cache_size.frac.den

\* Two rows, the first from a variant with two or more cached records loaded
\* with the largest query count first.
C16_Witness ==
    /\ rows2.status = "ok"
    /\ Len(rows2.rows) = 2
    /\ Cardinality(MatchingRecords(vspec, Str_cached, vspec.pattern_var[1])) >= 2
    /\ \E i \in LargestCached(vspec.pattern_var[1]) :
          \E j \in MatchingRecords(vspec, Str_cached, vspec.pattern_var[1]) : i < j

----------------------------------------------------------------------------
(* Claims about the chart series, the break-even table and the script.     *)

\* The loaded records with exactly the key (name, head, pv, mode, q).
RecordsAt(name, head, pv, mode, q) ==
    {i \in 1..Len(bench_data) : KeyOf(bench_data[i]) = <<name, head, pv, mode, ParseInt(q)>>}

\* The uncached time of a record, from its four Time fields.
UncachedNanos(st) ==
    Nanos(st.time) - Nanos(st.cache_read_time) - Nanos(st.cache_store_time)
        - Nanos(st.circle_check_time)

\* Whether the pattern name of a spec contains "circle".
NameFlag(var) == Contains(Str_circle, var.name)

\* C17: the chart holds six bars: per query count 1, 5, 10 a baseline bar
\* of one segment with the uncached times, then per query count a cached
\* bar with the uncached times, the cache-access times and, exactly when
\* the pattern name contains "circle", the circle-check times; a segment
\* holds the value of each variant of the spec, in the spec's order.
C17_ChartSeries ==
    chart.status = "ok" =>
        LET var == chart.var
            nq == Len(NUM_QUERIES)
            from(n, mode, q) == RecordsAt(var.name, var.head_type, var.pattern_var[n], mode, q)
        IN  /\ Len(chart.data) = 2 * nq
            /\ \A k \in 1..nq :
                  LET b == chart.data[k]
                      c == chart.data[nq + k]
                      q == NUM_QUERIES[k]
                  IN  /\ b.label = q
                      /\ c.label = q
                      /\ Len(b.segments) = 1
                      /\ Len(c.segments) = IF NameFlag(var) THEN 3 ELSE 2
                      /\ \A j \in 1..Len(b.segments) : Len(b.segments[j].values) = Len(var.pattern_var)
                      /\ \A j \in 1..Len(c.segments) : Len(c.segments[j].values) = Len(var.pattern_var)
                      /\ \A n \in 1..Len(var.pattern_var) :
                            /\ \E i \in from(n, Str_base, q) :
                                  b.segments[1].values[n] = UncachedNanos(bench_data[i].stats)
                            /\ \E i \in from(n, Str_cached, q) :
                                  LET st == bench_data[i].stats
                                  IN  /\ c.segments[1].values[n] = UncachedNanos(st)
                                      /\ c.segments[2].values[n]
                                            = Nanos(st.cache_read_time) + Nanos(st.cache_store_time)
                                      /\ NameFlag(var) =>
                                            c.segments[3].values[n] = Nanos(st.circle_check_time)

\* A chart of two variants, listed against the order of the document, for
\* a pattern name with "circle" and keys loaded out of order.
C17_Witness ==
    /\ chart.status = "ok"
    /\ Len(chart.var.pattern_var) = 2
    /\ NameFlag(chart.var)
    /\ Len(chart.data[4].segments) = 3
    /\ bench_data[1].num_queries = 10

\* C18: the break-even count is the entry of the fixed table for the head
\* kind (fanout when the head contains "fan", linear otherwise) and the
\* pattern name, whatever is loaded: 5 and 4 for sg_circle, 2 for sg_tree
\* and sg_linear, 1 for sg_diamond.
C18_BreakEven ==
    mres.op = "break_even" =>
        LET fan == Contains(Str_fan, mres.head)
        IN  /\ mres.name = Str_sg_circle =>
                  mres.out = [status |-> "ok", value |-> IF fan THEN 5 ELSE 4]
            /\ mres.name \in {Str_sg_tree, Str_sg_linear} =>
                  mres.out = [status |-> "ok", value |-> 2]
            /\ mres.name = Str_sg_diamond =>
                  mres.out = [status |-> "ok", value |-> 1]

\* The lookup of sg_circle for the fanout head, with records loaded.
C18_Witness ==
    /\ mres.op = "break_even"
    /\ mres.head = Str_fan_pat
    /\ mres.name = Str_sg_circle
    /\ mres.out.value = 5
    /\ pc = "loaded"
    /\ Len(bench_data) > 0

\* The identities of the buckets of a view.
BucketIds(v) ==
    {v.base[pv] : pv \in DOMAIN v.base} \cup {v.cached[pv] : pv \in DOMAIN v.cached}

\* C19: once loaded, the record list stays what was loaded, whatever
\* views, rows and charts are produced; every view keeps the buckets it
\* was built with, and no list is a bucket of two views or of one view
\* twice.
C19_ReadOnly ==
    load_status.status = "ok" =>
        /\ bench_data = BenchResult2_from_json(doc)
        /\ \A k \in 1..Len(bench_vars) :
              /\ Deref(bench_vars[k], heap) = BenchResultVariation(bench_vars[k].var, bench_data)
              /\ Cardinality(BucketIds(bench_vars[k]))
                    = Cardinality(DOMAIN bench_vars[k].base) + Cardinality(DOMAIN bench_vars[k].cached)
        /\ \A j, k \in 1..Len(bench_vars) :
              j # k => BucketIds(bench_vars[j]) \cap BucketIds(bench_vars[k]) = {}

\* Two views with buckets of the same variant, after both kinds of rows
\* and a chart have been produced.
C19_Witness ==
    /\ Len(bench_vars) = 2
    /\ DOMAIN bench_vars[1].cached \cap DOMAIN bench_vars[2].cached # {}
    /\ rows.status = "ok"
    /\ rows2.status = "ok"
    /\ chart.status = "ok"

\* C20: comparison rows, cache-size rows and chart all treat the circle
\* check as the pattern name says: the cached time of a comparison row and
\* the circle share of a cache-size row include the circle-check time
\* exactly when the name contains "circle", as the chart's third segment
\* does.
C20_FlagByPatternName ==
    /\ rows.status = "ok" =>
          LET v == bench_vars[rows.view]
              data == Deref(v, heap)
          IN  \A n \in 1..Len(v.var.pattern_var) :
                  \A j \in 1..Len(rows.rows[n].exec_time_cached) :
                      LET st == data.cached[v.var.pattern_var[n]][j].stats
                      IN  rows.rows[n].exec_time_cached[j]
                            = Nanos(st.time)
                              - (IF NameFlag(v.var) THEN 0 ELSE Nanos(st.circle_check_time))
    /\ rows2.status = "ok" =>
          LET v == bench_vars[rows2.view]
              data == Deref(v, heap)
          IN  \A n \in 1..Len(v.var.pattern_var) :
                  LET bucket == data.cached[v.var.pattern_var[n]]
                      st == bucket[Len(bucket)].stats
                  IN  rows2.rows[n].circle_time.num
                        = IF NameFlag(v.var) THEN Nanos(st.circle_check_time) ELSE 0
    /\ chart.status = "ok" =>
          \A k \in 1..Len(NUM_QUERIES) :
              Len(chart.data[Len(NUM_QUERIES) + k].segments) = IF NameFlag(chart.var) THEN 3 ELSE 2

----------------------------------------------------------------------------
\* a + b + c = t over integers of up to 2^31 in size, computed on their
\* seconds and nanoseconds so that no intermediate sum leaves 32 bits.
SumsTo(a, b, c, t) ==
    LET n == NANOS_PER_SEC
        q == (a \div n) + (b \div n) + (c \div n) - (t \div n)
        d == ((a % n) + (b % n)) - (t % n)
        r == (d % n) + (c % n)
    IN  /\ r % n = 0
        /\ q + (d \div n) + (r \div n) = 0

\* C21: in a cache-size row the shares of uncached, cache-access and
\* circle-check time are all taken of the record's effective total (its
\* total, less the circle-check time when the flag is off), and their
\* nanosecond values add up to exactly that total, with the flag on and
\* off.
C21_SharesSum ==
    (mres.op = "table2_row" /\ mres.out.status = "ok") =>
        LET with_circle == Contains(Str_circle, mvar)
            total == IF with_circle THEN Nanos(mc.stats.time)
                     ELSE Nanos(TimeSub(mc.stats.time, mc.stats.circle_check_time))
            row == mres.out
        IN  /\ row.exec_time_cached.den = total
            /\ row.cache_time.den = total
            /\ row.circle_time.den = total
            /\ total # 0
            /\ row.circle_time.num = IF with_circle THEN Nanos(mc.stats.circle_check_time) ELSE 0
            /\ SumsTo(row.exec_time_cached.num, row.cache_time.num, row.circle_time.num, total)

\* Rows with the flag off and a non-zero circle-check time, built from
\* times whose cache-access sum carries and whose uncached time borrows.
C21_Witness ==
    /\ mres.op = "table2_row"
    /\ mres.out.status = "ok"
    /\ ~Contains(Str_circle, mvar)
    /\ mc.stats.circle_check_time.nanos > 0
    /\ mc.stats.cache_read_time.nanos + mc.stats.cache_store_time.nanos >= NANOS_PER_SEC
    /\ mc.stats.time.nanos < mc.stats.cache_access_time.nanos

----------------------------------------------------------------------------
====
